---- MODULE Spec2Model ----
(***************************************************************************)
(* The cooperative scheduler of trezor-core: the event loop of             *)
(* src/trezor/loop.py (time queue, paused table, step engine, the syscalls *)
(* Sleep, Select, Signal and Wait) and the workflow supervisor of          *)
(* src/trezor/workflow.py.                                                 *)
(*                                                                         *)
(* A task is a python generator.  The scheduler never looks inside one, so *)
(* the body of a client coroutine is a nondeterministic choice, at every   *)
(* resume, of what it calls (signal.send, workflow.start, close_default)   *)
(* and of how the step ends (a yielded syscall, a bare yield, an unknown   *)
(* value, a return, a raise).  The generators of the repository itself     *)
(* (Wait._wait, workflow._wrap, Syscall.__iter__, Wait.__iter__) are       *)
(* modelled by what their code does.                                       *)
(***************************************************************************)
EXTENDS Integers, Sequences, FiniteSets, TLC

VARIABLES
    now,               \* utime.ticks_us(), a wrapping counter
    _scheduled_tasks,  \* loop._scheduled_tasks: entries in pop order
    _paused_tasks,     \* loop._paused_tasks: iface -> list of tasks
    tasks,             \* the generators: task handle -> its state
    waits,             \* the Wait objects
    signal,            \* the Signal object: [value, task]
    _started,          \* workflow._started
    _default,          \* workflow._default (0 is None)
    _default_genfunc,  \* workflow._default_genfunc (0 is None)
    pc,                \* position of run_forever: "select", "deliver", or "crashed"
    msg_iface,         \* run_forever: interface of the message being delivered
    msg_tasks,         \* run_forever: the drained list still to be stepped
    msg_value,         \* run_forever: payload of the message being delivered
    after_step_hook,   \* loop.after_step_hook: whether it is set
    ev                 \* what the last loop action did (observation only)

vars == <<now, _scheduled_tasks, _paused_tasks, tasks, waits, signal,
          _started, _default, _default_genfunc, pc, msg_iface, msg_tasks, msg_value,
          after_step_hook, ev>>

-----------------------------------------------------------------------------
(* Bounds of the model *)

MaxTasks == 5        \* task handles that can ever be created
MaxWaits == 2        \* Wait objects that can ever be constructed
MaxDelay == 1        \* largest Sleep delay a task asks for

(* Program constants *)

TOUCH == 255                 \* loop.TOUCH
_MAX_QUEUE_SIZE == 64        \* loop._MAX_QUEUE_SIZE
_MAX_SELECT_DELAY == 1000000 \* loop._MAX_SELECT_DELAY

(* The tick counter wraps; the model's counter wraps at TicksPeriod, a     *)
(* scaled-down period (deadlines are compared by ticks_diff only).         *)
TicksPeriod == 8

Ifaces == {TOUCH, 1}         \* the touch screen and one USB endpoint
TaskIds == 1..MaxTasks
WaitIds == 1..MaxWaits
Delays == 0..MaxDelay

-----------------------------------------------------------------------------
(* Values passed to tasks.  Every value is [k, v] with v a tuple of        *)
(* integers: k = "none" is None, "int" an integer (a deadline, a result),  *)
(* "tuple" a message payload, "exc" an Exception instance.                 *)

None == [k |-> "none", v |-> <<>>]
IntV(n) == [k |-> "int", v |-> <<n>>]
TupleV(t) == [k |-> "tuple", v |-> t]
ExcV == [k |-> "exc", v |-> <<>>]
IsException(x) == x.k = "exc"

Range(q) == {q[j] : j \in 1..Len(q)}
Count(q, x) == Cardinality({j \in 1..Len(q) : q[j] = x})
RemoveAt(q, p) == SubSeq(q, 1, p - 1) \o SubSeq(q, p + 1, Len(q))
FirstIndex(q, x) == CHOOSE j \in 1..Len(q) : q[j] = x /\ \A h \in 1..(j - 1) : q[h] # x
\* list.remove(x): drops the first occurrence
RemoveFirst(q, x) == IF x \in Range(q) THEN RemoveAt(q, FirstIndex(q, x)) ELSE q

-----------------------------------------------------------------------------
(* utime / utimeq *)

ticks_add(t, d) == (t + d) % TicksPeriod
ticks_diff(a, b) == ((a - b + TicksPeriod \div 2) % TicksPeriod) - TicksPeriod \div 2

Max(a, b) == IF a >= b THEN a ELSE b
Min(a, b) == IF a <= b THEN a ELSE b
Least(S, otherwise) == IF S = {} THEN otherwise ELSE CHOOSE j \in S : \A h \in S : j <= h

Entry(deadline, task, value) == [time |-> deadline, task |-> task, value |-> value]

\* utimeq orders by wrap-aware time, entries of equal time by push order
Earlier(a, b) == ticks_diff(a.time, b.time) < 0

InsertAt(q, e, p) == SubSeq(q, 1, p - 1) \o <<e>> \o SubSeq(q, p, Len(q))

\* utimeq.push: the queue is kept in pop order
QueuePush(q, e) ==
    InsertAt(q, e, Least({j \in 1..Len(q) : Earlier(e, q[j])}, Len(q) + 1))

-----------------------------------------------------------------------------
(* The state of the scheduler as one record, so that the calls a handler   *)
(* makes compose: every operation below maps a state to the state after    *)
(* the call.  `running` is the task inside _step_task (0: none),           *)
(* `handling` says that _step_task is in its else branch, past the try,    *)
(* and `exc` that the exception of a failed push is propagating: the       *)
(* statements that follow the push in its callers are not executed.        *)

Cur ==
    [ now |-> now, tq |-> _scheduled_tasks, paused |-> _paused_tasks,
      tasks |-> tasks, waits |-> waits, sig |-> signal,
      started |-> _started, default |-> _default, genfunc |-> _default_genfunc,
      hook |-> after_step_hook,
      running |-> 0, handling |-> FALSE, exc |-> FALSE, ev |-> <<>> ]

Event(e, t, w, x, n) == [e |-> e, t |-> t, w |-> w, x |-> x, n |-> n]
Log(s, event) == [s EXCEPT !.ev = Append(@, event)]

\* the tasks paused on iface (dict.get(iface, ()))
PausedOn(paused, i) == IF i \in DOMAIN paused THEN paused[i] ELSE <<>>
InQueue(q, t) == \E j \in 1..Len(q) : q[j].task = t
InPaused(paused, t) == \E i \in DOMAIN paused : t \in Range(paused[i])

\* utimeq.push fails on a queue that holds the entries it was made for
QueueFull(q) == Len(q) >= _MAX_QUEUE_SIZE

\* loop.schedule_task(task, value, deadline).  A push that fails raises an
\* exception in its caller (utimeq raises IndexError).
schedule_task(s, task, value, deadline) ==
    IF QueueFull(s.tq)
    THEN Log([s EXCEPT !.exc = TRUE],
             Event("overflow", task, 0, value, IF s.handling THEN 1 ELSE 0))
    ELSE [s EXCEPT !.tq = QueuePush(@, Entry(deadline, task, value))]

\* the loop of unschedule_task: pop every entry, push the others on the copy
RECURSIVE CopyWithout(_, _, _)
CopyWithout(q, task, queue_copy) ==
    IF q = <<>> THEN queue_copy
    ELSE CopyWithout(Tail(q), task,
                     IF Head(q).task # task THEN QueuePush(queue_copy, Head(q))
                     ELSE queue_copy)

\* a rebuild that puts an entry in front of the entries of its deadline
RECURSIVE CopyWithout_front(_, _, _)
CopyWithout_front(q, task, queue_copy) ==
    IF q = <<>> THEN queue_copy
    ELSE CopyWithout_front(Tail(q), task,
            IF Head(q).task # task
            THEN InsertAt(queue_copy, Head(q),
                          Least({j \in 1..Len(queue_copy) : ~Earlier(queue_copy[j], Head(q))},
                                Len(queue_copy) + 1))
            ELSE queue_copy)

unschedule_task_front(s, task) == [s EXCEPT !.tq = CopyWithout_front(@, task, <<>>)]

\* an unschedule_task that stops at the first entry of the task
unschedule_task_first(s, task) ==
    [s EXCEPT !.tq = IF InQueue(@, task)
                     THEN RemoveAt(@, Least({j \in 1..Len(@) : @[j].task = task}, 1))
                     ELSE @]

\* loop.unschedule_task(task)
unschedule_task(s, task) == [s EXCEPT !.tq = CopyWithout(@, task, <<>>)]

\* _pause_task putting the task in front of the list
_pause_task_front(s, task, iface) ==
    [s EXCEPT !.paused =
        IF iface \in DOMAIN @ THEN [@ EXCEPT ![iface] = <<task>> \o @]
        ELSE [i \in DOMAIN @ \cup {iface} |-> IF i = iface THEN <<task>> ELSE @[i]]]

\* loop._pause_task(task, iface)
_pause_task(s, task, iface) ==
    [s EXCEPT !.paused =
        IF iface \in DOMAIN @ THEN [@ EXCEPT ![iface] = Append(@, task)]
        ELSE [i \in DOMAIN @ \cup {iface} |-> IF i = iface THEN <<task>> ELSE @[i]]]

\* loop._unpause_task(task)
_unpause_task(s, task) ==
    [s EXCEPT !.paused = [i \in DOMAIN @ |-> RemoveFirst(@[i], task)]]

-----------------------------------------------------------------------------
(* Generators.  A task record:                                             *)
(*   kind  "plain" (scheduled at boot), "default" (made by the default     *)
(*         factory), "wrap" (workflow._wrap), "wait" (Wait._wait)          *)
(*   st    "new" (never resumed), "susp" (suspended at a yield), "done"    *)
(*   body  what the generator awaits: "coro" a client coroutine, "sleep"   *)
(*         or "select" a syscall object awaited through Syscall.__iter__   *)
(*   arg   the delay or the interface of a syscall body                    *)
(*   w, k  for a Wait._wait wrapper: its Wait and the index of its child   *)
(*   on    the Wait the coroutine is suspended on (0: none), and           *)
(*   aw    whether it awaits it, inside Wait.__iter__, or yielded it       *)

Task(kind, body, arg, w, k) ==
    [kind |-> kind, st |-> "new", body |-> body, arg |-> arg, w |-> w, k |-> k,
     on |-> 0, aw |-> FALSE]

NewTask(s, t) == [s EXCEPT !.tasks = Append(@, t)]
LastTask(s) == Len(s.tasks)

\* the object `child` of Wait w at index k, as held in Wait.finished
ChildObj(w, k) == 100 * w + k

-----------------------------------------------------------------------------
(* Signal *)

(* The value slot holds <<>> when the attribute is _NO_VALUE and <<v>> when  *)
(* it holds v.  _NO_VALUE is the empty tuple, and the test of _deliver is   *)
(* `self.value is not _NO_VALUE`: the empty tuple is one object, so a slot  *)
(* that was given () is a slot that holds no value.  `sent` is not a field  *)
(* of the class: it records the values given to send() since the last       *)
(* delivery (the last two of them).                                         *)

_NO_VALUE == TupleV(<<>>)

Slot(value) == IF value = _NO_VALUE THEN <<>> ELSE <<value>>

LastTwo(q) == IF Len(q) > 2 THEN Tail(q) ELSE q

\* a Signal that keeps its slots when it delivers
Signal_deliver_keep(s) ==
    IF s.sig.task # 0 /\ s.sig.value # <<>>
    THEN Log(schedule_task(s, s.sig.task, s.sig.value[1], s.now),
             Event("deliver", s.sig.task, 0, s.sig.value[1], 0))
    ELSE s

\* the two assignments that follow schedule_task in _deliver
Delivered(s, task, value) ==
    IF s.exc THEN s
    ELSE Log([s EXCEPT !.sig = [value |-> <<>>, task |-> 0, sent |-> <<>>]],
             Event("deliver", task, 0, value, 0))

\* Signal._deliver
Signal_deliver(s) ==
    IF s.sig.task # 0 /\ s.sig.value # <<>>
    THEN Delivered(schedule_task(s, s.sig.task, s.sig.value[1], s.now),
                   s.sig.task, s.sig.value[1])
    ELSE s

\* Signal.handle(task)
Signal_handle(s, task) ==
    Signal_deliver(Log([s EXCEPT !.sig.task = task], Event("await", task, 0, None, 0)))

\* Signal.send(value)
Signal_send(s, value) ==
    Signal_deliver(Log([s EXCEPT !.sig.value = Slot(value),
                                 !.sig.sent = LastTwo(Append(@, value))],
                       Event("send", s.running, 0, value, 0)))

-----------------------------------------------------------------------------
(* Workflow supervisor (the part that closes nothing) *)

ScheduleDefault(s) ==
    schedule_task([s EXCEPT !.default = LastTask(s)], LastTask(s), None, s.now)

\* workflow.start_default(genfunc): the factory makes a fresh generator
start_default(s) ==
    ScheduleDefault(NewTask([s EXCEPT !.genfunc = 1], Task("default", "coro", 0, 0, 0)))

RestartDefault(s, t) ==
    IF s.started = <<>> /\ s.genfunc # 0
    THEN Log(start_default(s), Event("wrapend", t, 0, None, 1))
    ELSE Log(s, Event("wrapend", t, 0, None, 0))

\* a finally clause that leaves the default workflow stopped
Wrap_finally_norestart(s, t) ==
    Log([s EXCEPT !.started = RemoveFirst(@, t)], Event("wrapend", t, 0, None, 0))

\* the finally clause of workflow._wrap; the workflow object is named by
\* the handle of the _wrap generator that awaits it
Wrap_finally(s, t) == RestartDefault([s EXCEPT !.started = RemoveFirst(@, t)], t)

-----------------------------------------------------------------------------
(* Wait.  A Wait record: children (each [body, arg]), wait_for,            *)
(* exit_others, scheduled (the _wait wrappers), finished (the child        *)
(* objects), task (the parent, 0 is None) and, for observation, resumed:   *)
(* how often _finish has scheduled the parent since handle().              *)

WaitObj(children, wait_for, exit_others) ==
    [children |-> children, wait_for |-> wait_for, exit_others |-> exit_others,
     scheduled |-> <<>>, finished |-> <<>>, task |-> 0, resumed |-> 0]

\* how many wrappers of Wait w are still in the time queue or paused table
Leftover(s, w) ==
    Cardinality({j \in 1..Len(s.waits[w].scheduled) :
        \/ InQueue(s.tq, s.waits[w].scheduled[j])
        \/ InPaused(s.paused, s.waits[w].scheduled[j])})

RECURSIVE Close(_, _)
RECURSIVE Wait_exit_from(_, _, _)

\* the body of the for loop of Wait.exit()
ExitTask(s, w, task) ==
    IF task \notin Range(s.waits[w].finished)
    THEN Close(unschedule_task(_unpause_task(s, task), task), task)
    ELSE s

\* Wait.exit(): the for loop from position j of self.scheduled
Wait_exit_from(s, w, j) ==
    IF j > Len(s.waits[w].scheduled) THEN s
    ELSE Wait_exit_from(ExitTask(s, w, s.waits[w].scheduled[j]), w, j + 1)

ExitDone(s, w) == Log(s, Event("exit", s.running, w, None, Leftover(s, w)))

\* Wait.exit()
Wait_exit(s, w) == ExitDone(Wait_exit_from(s, w, 1), w)

Cancelled(s, t, w) == Log(s, Event("cancel", t, w, None, Leftover(s, w)))

\* GeneratorExit at the yield of a suspended generator: Wait.__iter__ runs
\* exit() and re-raises, Wait._wait lets it pass (it is no Exception), the
\* finally clause of workflow._wrap runs
Unwind(s, t, tk) ==
    IF tk.on # 0
    THEN Cancelled(IF tk.aw THEN Wait_exit(s, tk.on) ELSE s, t, tk.on)
    ELSE IF tk.kind = "wrap" THEN Wrap_finally(s, t)
    ELSE s

\* generator.close().  A generator that was never resumed runs no code.
\* Closing the generator that is executing (Wait.exit() reaches the wrapper
\* that called _finish) leaves it running.
Close(s, t) ==
    IF t = s.running \/ s.tasks[t].st = "done" THEN Log(s, Event("close", t, 0, None, 0))
    ELSE IF s.tasks[t].st = "new"
    THEN Log([s EXCEPT !.tasks[t].st = "done"], Event("close", t, 0, None, 0))
    ELSE Unwind(Log([s EXCEPT !.tasks[t].st = "done"], Event("close", t, 0, None, 0)),
                t, s.tasks[t])

SpawnChild(s, w) ==
    schedule_task([s EXCEPT !.waits[w].scheduled = Append(@, LastTask(s))],
                  LastTask(s), None, s.now)

\* Wait.handle(task): the for loop over self.children from index k
RECURSIVE Wait_spawn(_, _, _)
Wait_spawn(s, w, k) ==
    IF k > Len(s.waits[w].children) \/ s.exc THEN s
    ELSE Wait_spawn(
            SpawnChild(NewTask(s, Task("wait", s.waits[w].children[k].body,
                                       s.waits[w].children[k].arg, w, k)), w),
            w, k + 1)

\* Wait.handle(task)
Wait_handle(s, w, task) ==
    Wait_spawn([s EXCEPT !.waits[w].task = task, !.waits[w].finished = <<>>,
                         !.waits[w].scheduled = <<>>, !.waits[w].resumed = 0], w, 1)

Resumed(s, w, task, result) ==
    IF s.exc THEN s
    ELSE Log([s EXCEPT !.waits[w].resumed = @ + 1], Event("resume", task, w, result, 0))

ResumeParent(s, w, result) ==
    IF s.waits[w].task # 0
    THEN Resumed(schedule_task(s, s.waits[w].task, result, s.now), w, s.waits[w].task, result)
    ELSE s

Finished(s, w, result) ==
    IF s.waits[w].wait_for = Len(s.waits[w].finished) \/ IsException(result)
    THEN ResumeParent(IF s.waits[w].exit_others THEN Wait_exit(s, w) ELSE s, w, result)
    ELSE s

FinishLogged(s, w, result) ==
    Finished(Log(s, Event("finish", s.running, w, result, Len(s.waits[w].finished))),
             w, result)

\* Wait._finish(child, result), called by the wrapper s.running
Wait_finish(s, w, k, result) ==
    FinishLogged([s EXCEPT !.waits[w].finished = Append(@, ChildObj(w, k))], w, result)

-----------------------------------------------------------------------------
(* Workflow supervisor (the part that closes) *)

\* workflow.close_default()
close_default(s) ==
    IF s.default # 0 THEN [Close(s, s.default) EXCEPT !.default = 0] ELSE s

Started(s, task, old) ==
    IF s.exc THEN s ELSE Log(s, Event("start", task, old, None, 0))

ScheduleWrap(s, old) ==
    Started(schedule_task([s EXCEPT !.started = Append(@, LastTask(s))],
                          LastTask(s), None, s.now),
            LastTask(s), old)

\* workflow.start(workflow)
start(s) == ScheduleWrap(NewTask(close_default(s), Task("wrap", "coro", 0, 0, 0)), s.default)

-----------------------------------------------------------------------------
(* What a client coroutine does in one resume: `pre` is the call it makes  *)
(* before it suspends or ends, `o` is how the step ends.                   *)

RetVal == IntV(1)            \* what a coroutine returns
SendVal == IntV(2)           \* what signal.send() is given,
OtherVal == IntV(3)          \* or this, or the empty tuple

\* the children tuples a client builds a Wait from: the race of the
\* keyboards (a Select on TOUCH, a Sleep) and two coroutines (ConfirmDialog)
ChildLists ==
    { << [body |-> "select", arg |-> TOUCH], [body |-> "sleep", arg |-> MaxDelay] >>,
      << [body |-> "coro", arg |-> 0], [body |-> "coro", arg |-> 0] >> }

Choice(pre, o, n, kids, wait_for, exit_others, await) ==
    [pre |-> pre, o |-> o, n |-> n, kids |-> kids, wait_for |-> wait_for,
     exit_others |-> exit_others, await |-> await]

Plain(pre, o, n) == Choice(pre, o, n, <<>>, 0, FALSE, FALSE)

\* the only step of a generator whose code is the repository's
Fixed == Plain("none", "fixed", 0)

(* A profile names the client programs a specification runs: the calls     *)
(* (pres) and the step ends (ends) their coroutines use, and the Waits     *)
(* they build: children tuples, wait_for, exit_others, and whether the     *)
(* Wait is awaited (Wait.__iter__) or yielded directly; and how long       *)
(* msg.select may block before it returns a message (elapse); waits is the *)
(* number of Waits the clients build, nest says whether the children of a  *)
(* Wait build Waits themselves.  The specification follows the programs    *)
(* while the clock reads less than `until` and they have made no more than *)
(* `handles` tasks.                                                        *)

\* workflows are started and the default closed by session handlers and by
\* workflows, not by the default workflow or the children of a Wait
Pres(P, s, t) ==
    IF s.tasks[t].kind \in {"plain", "wrap"} THEN P.pres
    ELSE P.pres \ {"start", "close_default"}

Ends(P, s, t) ==
    {Plain("none", "sleep", d) : d \in (IF "sleep" \in P.ends THEN Delays ELSE {})}
      \cup {Plain("none", "select", i) : i \in (IF "select" \in P.ends THEN Ifaces ELSE {})}
      \cup {Plain("none", o, 0) :
                o \in P.ends \cap {"signal", "none", "unknown", "return", "raise"}}
      \cup {Choice("none", "wait", 0, kids, wf, xo, aw) :
                kids \in (IF /\ "wait" \in P.ends /\ Len(s.waits) < P.waits
                             /\ (P.nest \/ s.tasks[t].kind # "wait")
                          THEN P.kids ELSE {}),
                wf \in P.wait_for, xo \in P.exit_others, aw \in P.awaits}

Choices(P, s, t) ==
    IF s.tasks[t].st = "done" \/ s.tasks[t].body # "coro" THEN {Fixed}
    ELSE {[c EXCEPT !.pre = p] : c \in Ends(P, s, t), p \in Pres(P, s, t)}

\* the call made inside the step
DoPre(s, c) ==
    CASE c.pre = "send" -> Signal_send(s, SendVal)
      [] c.pre = "send_other" -> Signal_send(s, OtherVal)
      [] c.pre = "send_empty" -> Signal_send(s, _NO_VALUE)
      [] c.pre = "start" -> start(s)
      [] c.pre = "close_default" -> close_default(s)
      [] OTHER -> s

-----------------------------------------------------------------------------
(* The step engine *)

\* how a resume ended: o, its argument n (a delay, an interface, a Wait),
\* whether a Wait is awaited, and the value returned or raised
End(o, n, aw, r) == [o |-> o, n |-> n, await |-> aw, result |-> r]

\* Syscall.__iter__: return (yield self)
ResumeSyscall(tk, value) ==
    IF tk.st = "new" THEN End(tk.body, tk.arg, FALSE, None)
    ELSE IF IsException(value) THEN End("raise", 0, FALSE, value)
    ELSE End("return", 0, FALSE, value)

\* a client coroutine runs on: the Wait it builds, or how its step ends
CoroEnd(s, c) ==
    IF s.exc     \* the call it made raised: the coroutine ends with the exception
    THEN [s |-> [s EXCEPT !.exc = FALSE], end |-> End("raise", 0, FALSE, ExcV)]
    ELSE IF c.o = "wait"
    THEN [s |-> [s EXCEPT !.waits = Append(@, WaitObj(c.kids, c.wait_for, c.exit_others))],
          end |-> End("wait", Len(s.waits) + 1, c.await, None)]
    ELSE [s |-> s, end |-> End(c.o, c.n, FALSE, IF c.o = "raise" THEN ExcV ELSE RetVal)]

\* Wait.__iter__: an exception at `yield self` runs exit() and is re-raised
\* into the coroutine
LeaveWait(s, t, tk, value) ==
    [(IF tk.on # 0 /\ tk.aw /\ IsException(value) THEN Wait_exit(s, tk.on) ELSE s)
        EXCEPT !.tasks[t].on = 0]

\* task.send(value) / task.throw(value): the generator runs to its next
\* yield or to its end.  Gives the state after its code ran and how it ended.
Resume(s, t, value, c) ==
    IF s.tasks[t].st = "done"
    THEN [s |-> s, end |-> End("stop", 0, FALSE, None)]   \* StopIteration at once
    ELSE IF s.tasks[t].body # "coro"
    THEN [s |-> s, end |-> ResumeSyscall(s.tasks[t], value)]
    ELSE CoroEnd(DoPre(LeaveWait(s, t, s.tasks[t], value), c), c)

\* except Exception as e: log.exception(__name__, e)
Failed(s, t, e) ==
    IF e.o = "raise" THEN Log(s, Event("raised", t, 0, e.result, 0)) ELSE s

\* the generator of the task around its body: Wait._wait reports the end of
\* its child to the Wait, workflow._wrap runs its finally clause
\* the same for an exception raised by the code of the generator itself
Absorbed(s, t) ==
    IF s.exc THEN Log([s EXCEPT !.exc = FALSE], Event("raised", t, 0, ExcV, 1)) ELSE s

Ended(s, t, e) ==
    CASE s.tasks[t].kind = "wait" ->
            Absorbed(Wait_finish([s EXCEPT !.tasks[t].st = "done"],
                                 s.tasks[t].w, s.tasks[t].k, e.result), t)
      [] s.tasks[t].kind = "wrap" ->
            Absorbed(Failed(Wrap_finally([s EXCEPT !.tasks[t].st = "done"], t), t, e), t)
      [] OTHER -> Failed([s EXCEPT !.tasks[t].st = "done"], t, e)

\* a Sleep that keys its entry at the time of the call
Sleep_handle_now(s, task, delay_us) ==
    Log(schedule_task(s, task, IntV(ticks_add(s.now, delay_us)), s.now),
        Event("sleep", task, 0, IntV(ticks_add(s.now, delay_us)), delay_us))

\* Sleep.handle(task)
Sleep_handle(s, task, delay_us) ==
    Log(schedule_task(s, task, IntV(ticks_add(s.now, delay_us)), ticks_add(s.now, delay_us)),
        Event("sleep", task, 0, IntV(ticks_add(s.now, delay_us)), delay_us))

\* Select.handle(task)
Select_handle(s, task, msg_iface_) ==
    Log(_pause_task(s, task, msg_iface_), Event("pause", task, msg_iface_, None, 0))

\* the else branch of _step_task: the task yielded e
Yielded(s, task, e) ==
    CASE e.o = "sleep" -> Sleep_handle(s, task, e.n)
      [] e.o = "select" -> Select_handle(s, task, e.n)
      [] e.o = "signal" -> Signal_handle(s, task)
      [] e.o = "wait" ->
            Wait_handle([s EXCEPT !.tasks[task].on = e.n, !.tasks[task].aw = e.await],
                        e.n, task)
      [] e.o = "none" -> Log(schedule_task(s, task, None, s.now),
                             Event("bare", task, 0, None, 0))
      [] OTHER -> Log(s, Event("unknown", task, 0, None, 0))   \* log.error: dropped

\* if after_step_hook is not None: after_step_hook(), the last statement of
\* the else branch
Hooked(s) ==
    IF s.hook /\ ~s.exc /\ s.handling THEN Log(s, Event("hook", s.running, 0, None, 0)) ELSE s

Stepped(r, task) ==
    CASE r.end.o = "stop" -> r.s
      [] r.end.o \in {"return", "raise"} -> Ended(r.s, task, r.end)
      [] OTHER -> Yielded([r.s EXCEPT !.tasks[task].st = "susp", !.handling = TRUE],
                          task, r.end)

\* loop._step_task(task, value)
_step_task(s, task, value, c) ==
    [Hooked(Stepped(Resume(Log([s EXCEPT !.running = task],
                               Event("step", task, 0, value,
                                     IF s.tasks[task].st = "done" THEN 1 ELSE 0)),
                           task, value, c),
                    task))
        EXCEPT !.running = 0, !.handling = FALSE]

-----------------------------------------------------------------------------
(* run_forever *)

\* a delay computed by plain subtraction
Delay_plain ==
    IF _scheduled_tasks # <<>> THEN _scheduled_tasks[1].time - now
    ELSE _MAX_SELECT_DELAY

\* the delay run_forever hands to msg.select
Delay ==
    IF _scheduled_tasks # <<>> THEN ticks_diff(_scheduled_tasks[1].time, now)
    ELSE _MAX_SELECT_DELAY

\* the tasks that were put to sleep before the loop started
Asleep(s) == Len(SelectSeq(s.tasks, LAMBDA tk : tk.kind = "plain" /\ tk.body = "sleep"))

\* the state a handler leaves behind; a step that would need more task
\* handles or Wait objects than the model has is not taken
Commit(s) ==
    /\ Len(s.tasks) <= MaxTasks + Asleep(s)
    /\ Len(s.waits) <= MaxWaits
    /\ now' = s.now
    /\ _scheduled_tasks' = s.tq
    /\ _paused_tasks' = s.paused
    /\ tasks' = s.tasks
    /\ waits' = s.waits
    /\ signal' = s.sig
    /\ _started' = s.started
    /\ _default' = s.default
    /\ _default_genfunc' = s.genfunc
    /\ after_step_hook' = s.hook
    /\ ev' = s.ev

\* the same after a step: an exception that leaves _step_task leaves
\* run_forever, and main.run, with it
AfterStep(s, next) ==
    /\ Commit(s)
    /\ pc' = IF s.exc THEN "crashed" ELSE next

Within(P) == now' < P.until /\ Len(tasks') <= P.handles

\* what msg.select returns: the interface, then the payload
Payload == <<7>>
Messages == {<<i>> \o Payload : i \in Ifaces}

\* a loop that pops the first scheduled entry along with the paused list
PopPaused_and_entry(s, i) ==
    [s EXCEPT !.paused = [j \in DOMAIN @ \ {i} |-> @[j]],
              !.tq = IF @ = <<>> THEN @ ELSE Tail(@)]

\* _paused_tasks.pop(msg_iface, ())
PopPaused(s, i) == [s EXCEPT !.paused = [j \in DOMAIN @ \ {i} |-> @[j]]]

\* msg.select(delay) returns a message, at once or before the delay is over:
\* the list of the tasks paused on its interface is popped; the clock, read at
\* the top of each iteration, has moved by the wait and by what the iteration
\* took itself (P.busy)
SelectMessage(P) ==
    /\ pc = "select"
    /\ \E msg_entry \in Messages, elapsed \in 0..Max(Min(Max(Delay, 0), P.elapse), P.busy) :
        /\ msg_iface' = Head(msg_entry)
        /\ msg_value' = TupleV(Tail(msg_entry))
        /\ msg_tasks' = PausedOn(_paused_tasks, Head(msg_entry))
        /\ pc' = IF PausedOn(_paused_tasks, Head(msg_entry)) = <<>> THEN "select" ELSE "deliver"
        /\ Commit(Log(PopPaused([Cur EXCEPT !.now = ticks_add(now, elapsed)], Head(msg_entry)),
                      Event("msg", 0, Head(msg_entry), TupleV(Tail(msg_entry)), 0)))
    /\ Within(P)

\* for task in msg_tasks: _step_task(task, msg_value), one task at a time
Deliver(P) ==
    /\ pc = "deliver"
    /\ \E c \in Choices(P, Cur, Head(msg_tasks)) :
        AfterStep(_step_task(Cur, Head(msg_tasks), msg_value, c),
                  IF Tail(msg_tasks) = <<>> THEN "select" ELSE "deliver")
    /\ msg_tasks' = Tail(msg_tasks)
    /\ UNCHANGED <<msg_iface, msg_value>>
    /\ Within(P)

\* a loop that pops the entry at the far end of the queue
PopAndStep_last(P, s, task_entry) ==
    \E c \in Choices(P, s, s.tq[Len(s.tq)].task) :
        AfterStep(_step_task([s EXCEPT !.tq = SubSeq(@, 1, Len(@) - 1)],
                             s.tq[Len(s.tq)].task, s.tq[Len(s.tq)].value, c), "select")

\* _scheduled_tasks.pop(task_entry); _step_task(task_entry[1], task_entry[2])
PopAndStep(P, s, task_entry) ==
    \E c \in Choices(P, s, task_entry.task) :
        AfterStep(_step_task([s EXCEPT !.tq = Tail(@)], task_entry.task, task_entry.value, c),
                  "select")

\* msg.select(delay) times out: the first scheduled task is popped and stepped
SelectTimeout(P) ==
    /\ pc = "select"
    /\ IF _scheduled_tasks # <<>>
       THEN PopAndStep(P, [Cur EXCEPT !.now = ticks_add(now, Max(Delay, 0))],
                       Head(_scheduled_tasks))
       ELSE AfterStep([Cur EXCEPT !.now = ticks_add(now, Max(Delay, 0))], "select")
    /\ UNCHANGED <<msg_iface, msg_tasks, msg_value>>
    /\ Within(P)

Boot ==
    [ now |-> 0, tq |-> <<>>, paused |-> <<>>, tasks |-> <<>>, waits |-> <<>>,
      sig |-> [value |-> <<>>, task |-> 0, sent |-> <<>>], started |-> <<>>, default |-> 0,
      genfunc |-> 0, hook |-> FALSE,
      running |-> 0, handling |-> FALSE, exc |-> FALSE, ev |-> <<>> ]

Start(s) ==
    /\ now = s.now
    /\ _scheduled_tasks = s.tq
    /\ _paused_tasks = s.paused
    /\ tasks = s.tasks
    /\ waits = s.waits
    /\ signal = s.sig
    /\ _started = s.started
    /\ _default = s.default
    /\ _default_genfunc = s.genfunc
    /\ pc = "select"
    /\ msg_iface = 0
    /\ msg_tasks = <<>>
    /\ msg_value = None
    /\ after_step_hook = s.hook
    /\ ev = <<>>

\* main.run(default_workflow): start_default, then run_forever
Init == Start(start_default(Boot))

\* the same after a session handler was scheduled at boot
InitSession ==
    Start(start_default(schedule_task(NewTask(Boot, Task("plain", "coro", 0, 0, 0)), 1, None, 0)))

-----------------------------------------------------------------------------
(* Specifications *)

\* the default workflow and what it awaits: every syscall, Waits of two
\* children
WaitProfile ==
    [ pres |-> {"none"},
      ends |-> {"sleep", "select", "wait", "return", "raise"},
      kids |-> ChildLists, wait_for |-> 1..2, exit_others |-> BOOLEAN,
      awaits |-> BOOLEAN, waits |-> 1, nest |-> FALSE, elapse |-> MaxDelay,
      until |-> TicksPeriod, handles |-> MaxTasks, busy |-> 0 ]

NextWait == SelectMessage(WaitProfile) \/ Deliver(WaitProfile) \/ SelectTimeout(WaitProfile)

SpecWait == Init /\ [][NextWait]_vars

\* Waits nested in the children of Waits
NestedProfile ==
    [ pres |-> {"none"},
      ends |-> {"select", "wait", "return", "raise"},
      kids |-> {<< [body |-> "coro", arg |-> 0], [body |-> "coro", arg |-> 0] >>},
      wait_for |-> {1}, exit_others |-> BOOLEAN,
      awaits |-> BOOLEAN, waits |-> MaxWaits, nest |-> TRUE, elapse |-> 0,
      until |-> TicksPeriod, handles |-> MaxTasks, busy |-> 0 ]

NextNested == SelectMessage(NestedProfile) \/ Deliver(NestedProfile) \/ SelectTimeout(NestedProfile)

SpecNested == Init /\ [][NextNested]_vars

\* a session handler and the workflows it starts: start and close_default
\* in any order, workflows that pause, yield, sleep, return and raise
WorkflowProfile ==
    [ pres |-> {"none", "start", "close_default"},
      ends |-> {"select", "none", "return", "raise"},
      kids |-> {}, wait_for |-> {}, exit_others |-> {}, awaits |-> {},
      waits |-> 0, nest |-> FALSE, elapse |-> 0,
      until |-> TicksPeriod, handles |-> MaxTasks, busy |-> 0 ]

NextWorkflow ==
    SelectMessage(WorkflowProfile) \/ Deliver(WorkflowProfile) \/ SelectTimeout(WorkflowProfile)

SpecWorkflow == InitSession /\ [][NextWorkflow]_vars

\* a session handler and the workflows it starts, all of them sleeping;
\* a message can arrive before the next deadline
TimerProfile ==
    [ pres |-> {"none"},
      ends |-> {"sleep", "select", "none", "return", "raise"},
      kids |-> {}, wait_for |-> {}, exit_others |-> {}, awaits |-> {},
      waits |-> 0, nest |-> FALSE, elapse |-> MaxDelay,
      until |-> TicksPeriod, handles |-> MaxTasks, busy |-> 0 ]

NextTimer == SelectMessage(TimerProfile) \/ Deliver(TimerProfile) \/ SelectTimeout(TimerProfile)

SpecTimer == InitSession /\ [][NextTimer]_vars

\* a session handler and the default workflow talking through one Signal
SignalProfile ==
    [ pres |-> {"none", "send", "send_other", "send_empty"},
      ends |-> {"signal", "select", "return"},
      kids |-> {}, wait_for |-> {}, exit_others |-> {}, awaits |-> {},
      waits |-> 0, nest |-> FALSE, elapse |-> 0,
      until |-> TicksPeriod, handles |-> MaxTasks, busy |-> 0 ]

NextSignal ==
    SelectMessage(SignalProfile) \/ Deliver(SignalProfile) \/ SelectTimeout(SignalProfile)

SpecSignal == InitSession /\ [][NextSignal]_vars

(* The time queue by itself: three tasks, and callers of schedule_task and  *)
(* unschedule_task that pass any task, any of the values and any deadline  *)
(* of Delays, while the queue holds at most MaxQueue entries.              *)

MaxQueue == 3

QueueTasks == 1..3
QueueValues == {None, SendVal}

InitQueue ==
    Start(NewTask(NewTask(NewTask(Boot, Task("plain", "coro", 0, 0, 0)),
                          Task("plain", "coro", 0, 0, 0)),
                  Task("plain", "coro", 0, 0, 0)))

Only(s) ==
    /\ _scheduled_tasks' = s.tq
    /\ ev' = s.ev
    /\ UNCHANGED <<now, _paused_tasks, tasks, waits, signal, _started, _default,
                   _default_genfunc, pc, msg_iface, msg_tasks, msg_value,
                   after_step_hook>>

EntriesOfTask(q, t) == {j \in 1..Len(q) : q[j].task = t}

\* schedule_task(t, v, d)
Schedule ==
    \E t \in QueueTasks, v \in QueueValues, d \in Delays :
        /\ Len(_scheduled_tasks) < MaxQueue
        /\ Only(Log(schedule_task(Cur, t, v, d), Event("schedule", t, 0, v, d)))

\* unschedule_task(t)
Unschedule ==
    \E t \in QueueTasks :
        /\ _scheduled_tasks # <<>>
        /\ Only(Log(unschedule_task(Cur, t),
                    Event("unschedule", t, 0, None, Cardinality(EntriesOfTask(_scheduled_tasks, t)))))

\* schedule_task(t, v, d); unschedule_task(t)
RoundTrip ==
    \E t \in QueueTasks, v \in QueueValues, d \in Delays :
        /\ Len(_scheduled_tasks) < _MAX_QUEUE_SIZE
        /\ Only(Log(unschedule_task(schedule_task(Cur, t, v, d), t),
                    Event("roundtrip", t, 0, v, d)))

NextQueue == Schedule \/ Unschedule \/ RoundTrip

SpecQueue == InitQueue /\ [][NextQueue]_vars

(* A loaded system: the time queue holds _MAX_QUEUE_SIZE entries when the  *)
(* loop starts, those of a session handler, of the default workflow and of *)
(* tasks that sleep until FarDelay, the farthest deadline that compares    *)
(* as later than now.                                                      *)

FarDelay == TicksPeriod \div 2 - 1

Sleeper == [Task("plain", "sleep", FarDelay, 0, 0) EXCEPT !.st = "susp"]

\* n tasks were stepped and yielded Sleep(FarDelay): what Sleep.handle
\* pushed for each of them
Loaded(s, n) ==
    [s EXCEPT !.tasks = [j \in 1..n |-> Sleeper],
              !.tq = [j \in 1..n |-> Entry(ticks_add(s.now, FarDelay), j,
                                           IntV(ticks_add(s.now, FarDelay)))]]

ScheduleSession(s) == schedule_task(s, LastTask(s), None, s.now)

InitFull ==
    Start(start_default(ScheduleSession(
            NewTask(Loaded(Boot, _MAX_QUEUE_SIZE - 2), Task("plain", "coro", 0, 0, 0)))))

MaxStarts == 2       \* workflows that are started while they sleep
Horizon == 1         \* the clock is followed while it reads less than this

FullProfile ==
    [ pres |-> {"none", "start", "send"},
      ends |-> {"select", "signal", "sleep"},
      kids |-> {}, wait_for |-> {}, exit_others |-> {}, awaits |-> {},
      waits |-> 0, nest |-> FALSE, elapse |-> 0,
      until |-> Horizon, handles |-> _MAX_QUEUE_SIZE + MaxStarts, busy |-> 0 ]

NextFull == SelectMessage(FullProfile) \/ Deliver(FullProfile) \/ SelectTimeout(FullProfile)

SpecFull == InitFull /\ [][NextFull]_vars

\* the host build: after_step_hook is set before the loop starts, and the
\* steps of the tasks end in every way a step can end
InitHook ==
    Start([start_default(schedule_task(NewTask(Boot, Task("plain", "coro", 0, 0, 0)),
                                       1, None, 0))
              EXCEPT !.hook = TRUE])

HookProfile ==
    [ pres |-> {"none"},
      ends |-> {"sleep", "select", "none", "unknown", "return", "raise"},
      kids |-> {}, wait_for |-> {}, exit_others |-> {}, awaits |-> {},
      waits |-> 0, nest |-> FALSE, elapse |-> 0,
      until |-> TicksPeriod, handles |-> MaxTasks, busy |-> 0 ]

NextHook == SelectMessage(HookProfile) \/ Deliver(HookProfile) \/ SelectTimeout(HookProfile)

SpecHook == InitHook /\ [][NextHook]_vars

\* a session handler beside the default workflow, which awaits a Wait of
\* two coroutines; their steps end in every way but a Sleep
YieldProfile ==
    [ pres |-> {"none"},
      ends |-> {"select", "wait", "none", "unknown", "return", "raise"},
      kids |-> {<< [body |-> "coro", arg |-> 0], [body |-> "coro", arg |-> 0] >>},
      wait_for |-> {1}, exit_others |-> BOOLEAN,
      awaits |-> {TRUE}, waits |-> 1, nest |-> FALSE, elapse |-> 0,
      until |-> TicksPeriod, handles |-> MaxTasks, busy |-> 0 ]

NextYield == SelectMessage(YieldProfile) \/ Deliver(YieldProfile) \/ SelectTimeout(YieldProfile)

SpecYield == InitSession /\ [][NextYield]_vars

\* a session handler and the default workflow, sleeping or paused on an
\* interface, under a loop whose iterations take time; while True never
\* stops and every step terminates, so the loop always takes its next turn,
\* and whether msg.select returns a message is for the message source to say
LiveProfile ==
    [ pres |-> {"none"},
      ends |-> {"sleep", "select", "return"},
      kids |-> {}, wait_for |-> {}, exit_others |-> {}, awaits |-> {},
      waits |-> 0, nest |-> FALSE, elapse |-> MaxDelay,
      until |-> TicksPeriod, handles |-> MaxTasks, busy |-> 1 ]

NextLive == SelectMessage(LiveProfile) \/ Deliver(LiveProfile) \/ SelectTimeout(LiveProfile)

SpecLive == InitSession /\ [][NextLive]_vars /\ WF_vars(NextLive)

\* the default workflow awaits one Wait of two coroutines, built with any
\* wait_for from none to one more than it has children
WaitLiveProfile ==
    [ pres |-> {"none"},
      ends |-> {"select", "wait", "return", "raise"},
      kids |-> {<< [body |-> "coro", arg |-> 0], [body |-> "coro", arg |-> 0] >>},
      wait_for |-> 0..3, exit_others |-> BOOLEAN,
      awaits |-> {TRUE}, waits |-> 1, nest |-> FALSE, elapse |-> 0,
      until |-> TicksPeriod, handles |-> MaxTasks, busy |-> 0 ]

NextWaitLive ==
    SelectMessage(WaitLiveProfile) \/ Deliver(WaitLiveProfile) \/ SelectTimeout(WaitLiveProfile)

\* msg.select(delay) returns, with a message or at the end of the delay
PollWaitLive == SelectMessage(WaitLiveProfile) \/ SelectTimeout(WaitLiveProfile)

\* the for loop over msg_tasks comes to its end, every step terminating:
\* weak fairness of Deliver, which is enabled exactly while pc = "deliver"
DeliveryEnds == []<>(pc # "deliver")

SpecWaitLive == Init /\ [][NextWaitLive]_vars /\ WF_vars(PollWaitLive) /\ DeliveryEnds

-----------------------------------------------------------------------------
(* Properties *)

Handles == 1..Len(tasks)
Events(e) == {j \in 1..Len(ev) : ev[j].e = e}

\* C1: between task steps no task handle is both in the time queue and in
\* a list of the paused table (I1).
C1_QueueOrPaused ==
    \A t \in Handles : ~(InQueue(_scheduled_tasks, t) /\ InPaused(_paused_tasks, t))

\* C3: once a default factory is installed, exactly one of "a default task
\* is registered" and "a foreground workflow is registered" holds.
C3_DefaultXorForeground ==
    _default_genfunc # 0 => ~((_default # 0) <=> (_started # <<>>))

\* the half of it that no call sequence breaks: never both
C3_NeverBoth == ~(_default # 0 /\ _started # <<>>)

\* C4: workflow handover.  start(w) closes the running default and clears
\* the default slot before the wrapper of w is scheduled; when w ends and
\* no other foreground workflow remains, a fresh default task is created,
\* stored as the default and scheduled, and w has left the foreground list.
C4_Handover ==
    /\ \A j \in Events("start") :
        /\ _default = 0
        /\ ev[j].t \in Range(_started)
        /\ InQueue(_scheduled_tasks, ev[j].t)
        /\ ev[j].w # 0 =>
            /\ tasks[ev[j].w].st = "done"
            /\ \E h \in 1..(j - 1) : ev[h].e = "close" /\ ev[h].t = ev[j].w
    /\ \A j \in Events("wrapend") :
        /\ ev[j].t \notin Range(_started)
        /\ _started = <<>> =>
            /\ ev[j].n = 1
            /\ _default = Len(tasks)
            /\ tasks[_default].kind = "default" /\ tasks[_default].st = "new"
            /\ Count([h \in 1..Len(_scheduled_tasks) |-> _scheduled_tasks[h].task],
                     _default) = 1

\* a workflow started over a running default has ended and the default is back
C4_Witness ==
    \E j \in Events("wrapend") :
        /\ ev[j].n = 1 /\ _default = Len(tasks) /\ _started = <<>>
        /\ \E d \in Handles : d # _default /\ tasks[d].kind = "default" /\ tasks[d].st = "done"

\* C2: when Wait.exit() returns, no wrapper task of that Wait's current
\* activation is in the time queue or in a list of the paused table (I2).
C2_ExitRemovesChildren == \A j \in Events("exit") : ev[j].n = 0

\* C5: when a child of a Wait ends with result r and the number of finished
\* children equals wait_for or r is a failure, the parent is scheduled with
\* resume value r; with exit_others no wrapper of the Wait is left in the
\* time queue or the paused table at that point.
C5_FinishResumesParent ==
    \A j \in Events("finish") :
        (ev[j].n = waits[ev[j].w].wait_for \/ IsException(ev[j].x)) =>
            /\ \E h \in (j + 1)..Len(ev) :
                /\ ev[h] = Event("resume", waits[ev[j].w].task, ev[j].w, ev[j].x, 0)
                /\ waits[ev[j].w].exit_others =>
                    \E g \in (j + 1)..(h - 1) :
                        ev[g].e = "exit" /\ ev[g].w = ev[j].w /\ ev[g].n = 0
            /\ \E q \in 1..Len(_scheduled_tasks) :
                /\ _scheduled_tasks[q].task = waits[ev[j].w].task
                /\ _scheduled_tasks[q].value = ev[j].x

\* C6: in one activation of a Wait (one call of Wait.handle) the parent is
\* scheduled by _finish for at most one child event.
C6_ResumedOnce == \A w \in 1..Len(waits) : waits[w].resumed <= 1

\* C7: when a task suspended on a Wait is closed, no wrapper of that Wait
\* is left in the time queue or the paused table afterwards, whether the
\* task awaits the Wait or yielded it.
C7_CancelExitsChildren == \A j \in Events("cancel") : ev[j].n = 0

\* a is b with some entries left out, the others in their order
RECURSIVE IsSubSeq(_, _)
IsSubSeq(a, b) ==
    IF a = <<>> THEN TRUE
    ELSE IF b = <<>> THEN FALSE
    ELSE IF Head(a) = Head(b) THEN IsSubSeq(Tail(a), Tail(b))
    ELSE IsSubSeq(a, Tail(b))

NoDuplicates(q) == \A j, h \in 1..Len(q) : q[j] = q[h] => j = h
Front(q) == SubSeq(q, 1, Len(q) - 1)

\* a task that pauses is put behind the tasks already paused on the interface
PausedLast ==
    \A j \in 1..Len(ev') : ev'[j].e = "pause" =>
        /\ PausedOn(_paused_tasks', ev'[j].w) # <<>>
        /\ PausedOn(_paused_tasks', ev'[j].w)[Len(PausedOn(_paused_tasks', ev'[j].w))] = ev'[j].t
        /\ IsSubSeq(Front(PausedOn(_paused_tasks', ev'[j].w)),
                    PausedOn(_paused_tasks, ev'[j].w))

\* a message takes the whole list of its interface, in its order
DrainedInOrder ==
    (ev' # <<>> /\ ev'[1].e = "msg") =>
        /\ msg_tasks' = PausedOn(_paused_tasks, ev'[1].w)
        /\ msg_iface' = ev'[1].w
        /\ msg_value' = TupleV(Payload)
        /\ PausedOn(_paused_tasks', ev'[1].w) = <<>>

\* the drained tasks are stepped from the front, with the payload, and only
\* the stepped task can enter the list of the interface again
SteppedInOrder ==
    pc = "deliver" =>
        /\ ev'[1].e = "step" /\ ev'[1].t = Head(msg_tasks) /\ ev'[1].x = TupleV(Payload)
        /\ msg_tasks' = Tail(msg_tasks)
        /\ Range(PausedOn(_paused_tasks', msg_iface)) \subseteq
              Range(PausedOn(_paused_tasks, msg_iface))
                \cup {ev'[h].t : h \in {g \in 1..Len(ev') :
                        /\ ev'[g] = Event("pause", Head(msg_tasks), msg_iface, None, 0)}}

\* C8: the tasks paused on the interface of a message are stepped in the
\* order in which they were paused, each with the payload without the
\* interface; afterwards the list of the interface holds only tasks that
\* paused again during their own step.
C8_DeliveryOrder == [][PausedLast /\ DrainedInOrder /\ SteppedInOrder]_vars

\* two tasks were drained by one message, the first has been stepped and
\* paused again on the interface, the second is next
C8_Witness ==
    /\ pc = "deliver" /\ ev[1].e = "step" /\ ev[1].x = TupleV(Payload)
    /\ msg_tasks # <<>> /\ Head(msg_tasks) # ev[1].t
    /\ PausedOn(_paused_tasks, msg_iface) = <<ev[1].t>>

\* C9: one message is delivered to each task at most once: the list is
\* taken out of the paused table before the first step, no task is in it
\* twice, and a task that paused again on the interface is not among the
\* tasks still to be stepped.
C9_AtMostOnce ==
    pc = "deliver" =>
        /\ NoDuplicates(msg_tasks)
        /\ ev[1].e = "msg" => PausedOn(_paused_tasks, msg_iface) = <<>>
        /\ Range(msg_tasks) \cap Range(PausedOn(_paused_tasks, msg_iface)) = {}

\* a message leaves the lists of the other interfaces and the time queue as
\* they are, and changes nothing when no task is paused on its interface
MessageFrame ==
    (ev' # <<>> /\ ev'[1].e = "msg") =>
        /\ \A i \in Ifaces \ {ev'[1].w} :
              PausedOn(_paused_tasks', i) = PausedOn(_paused_tasks, i)
        /\ _scheduled_tasks' = _scheduled_tasks
        /\ PausedOn(_paused_tasks, ev'[1].w) = <<>> =>
              /\ \A i \in Ifaces : PausedOn(_paused_tasks', i) = PausedOn(_paused_tasks, i)
              /\ UNCHANGED <<tasks, waits, signal, _started, _default, _default_genfunc,
                             pc, msg_tasks>>

\* a paused task is stepped only by a message on the interface it is paused on
PausedUntilMessage ==
    /\ (pc = "select" /\ ev' # <<>> /\ ev'[1].e = "step") =>
            ~InPaused(_paused_tasks, ev'[1].t)
    /\ pc = "deliver" =>
            \A i \in Ifaces \ {msg_iface} : ev'[1].t \notin Range(PausedOn(_paused_tasks, i))

\* C10: a message on interface i leaves every other list of the paused
\* table and the time queue unchanged, a message nobody waits for changes
\* no scheduler state, and a task paused by Select(i) is stepped only when
\* a message on i arrives.
C10_Frame == [][MessageFrame /\ PausedUntilMessage]_vars

\* the part of C10 about the message itself
C10_MessageFrame == [][MessageFrame]_vars

\* the step of a timeout that found the time queue non-empty
TimeoutStep == pc = "select" /\ ev' # <<>> /\ ev'[1].e = "step"

\* the time queue once run_forever has popped what it steps
Remaining == IF TimeoutStep THEN Tail(_scheduled_tasks) ELSE _scheduled_tasks

EntriesOf(q, t) == {j \in 1..Len(q) : q[j].task = t}
\* the entries a step has pushed: there are more of them than before
Pushed(e) == Count(_scheduled_tasks', e) > Count(Remaining, e)
KeptEntries == SelectSeq(_scheduled_tasks', LAMBDA e : ~Pushed(e))

\* a timeout steps the first entry, and no entry has a smaller deadline
PopsSmallest ==
    TimeoutStep =>
        /\ ev'[1].t = _scheduled_tasks[1].task /\ ev'[1].x = _scheduled_tasks[1].value
        /\ \A j \in 1..Len(_scheduled_tasks) : ~Earlier(_scheduled_tasks[j], _scheduled_tasks[1])

\* the entries that stay keep their order, and an entry that is pushed goes
\* behind every entry whose deadline is not later than its own
PushedBehind ==
    /\ IsSubSeq(KeptEntries, Remaining)
    /\ \A j \in 1..Len(_scheduled_tasks') :
          (/\ Pushed(_scheduled_tasks'[j])
           /\ \A h \in (j + 1)..Len(_scheduled_tasks') :
                  _scheduled_tasks'[h] # _scheduled_tasks'[j]) =>
              \A h \in (j + 1)..Len(_scheduled_tasks') :
                  Earlier(_scheduled_tasks'[j], _scheduled_tasks'[h])
                    \/ Pushed(_scheduled_tasks'[h])

\* C11: on a timeout the loop steps the entry of the time queue with the
\* smallest deadline, entries of equal deadline in the order they were pushed.
C11_DeadlineOrder == [][PopsSmallest /\ PushedBehind]_vars

\* the entry popped by a timeout is due
PoppedIsDue == TimeoutStep => ticks_diff(_scheduled_tasks[1].time, now') <= 0

\* the task stepped by a timeout has no entry whose deadline is still ahead:
\* it is not in the middle of a Sleep
NotAsleep ==
    TimeoutStep =>
        \A j \in EntriesOf(_scheduled_tasks, _scheduled_tasks[1].task) :
            ticks_diff(_scheduled_tasks[j].time, now') <= 0

\* C12: a task that yields Sleep(d) at time t is not stepped from the time
\* queue before the clock has reached t + d; the entry a timeout pops is due.
C12_NotBeforeDeadline == [][PoppedIsDue /\ NotAsleep]_vars

\* the part of C12 about the popped entry
C12_PoppedIsDue == [][PoppedIsDue]_vars

\* C13: Sleep.handle at time now pushes exactly one entry for the task, with
\* key and resume value now + delay_us on the wrapping counter (for Sleep(0)
\* the call-site now), and the task is not stepped again within the step.
C13_SleepEntry ==
    [][\A j \in 1..Len(ev') : ev'[j].e = "sleep" =>
        /\ ev'[j].x = IntV((now' + ev'[j].n) % TicksPeriod)
        /\ ev'[j].n = 0 => ev'[j].x = IntV(now')
        /\ Cardinality(EntriesOf(_scheduled_tasks', ev'[j].t))
              = Cardinality(EntriesOf(Remaining, ev'[j].t)) + 1
        /\ Pushed(Entry(ev'[j].x.v[1], ev'[j].t, ev'[j].x))
        /\ Cardinality({h \in 1..Len(ev') : ev'[h].e = "step"}) = 1]_vars

\* a task is resumed from its Sleep while the Sleep of another task, with a
\* deadline further ahead, is still in the queue
C11_Witness ==
    /\ pc = "select" /\ ev # <<>> /\ ev[1].e = "step" /\ ev[1].x = IntV(now)
    /\ \E j \in 1..Len(_scheduled_tasks) :
        /\ _scheduled_tasks[j].task # ev[1].t
        /\ _scheduled_tasks[j].value = IntV(_scheduled_tasks[j].time)
        /\ ticks_diff(_scheduled_tasks[j].time, now) > 0

\* a Sleep whose deadline has wrapped past 0
C13_Witness ==
    \E j \in Events("sleep") : ev[j].n = MaxDelay /\ ev[j].x = IntV(0) /\ now = TicksPeriod - MaxDelay

\* C17: no task handle has more than one entry in the time queue.
C17_OneEntry ==
    \A t \in Handles : Cardinality(EntriesOf(_scheduled_tasks, t)) <= 1

\* C18: a task that raises during its step is dropped, it is afterwards in
\* neither the time queue nor the paused table, and the loop goes on.
C18_RaisedIsDropped ==
    \A j \in Events("raised") :
        /\ ~InQueue(_scheduled_tasks, ev[j].t)
        /\ ~InPaused(_paused_tasks, ev[j].t)
        /\ pc \in {"select", "deliver"}

\* a message pops no entry of the time queue and steps no task by itself
MessagePopsNothing ==
    (ev' # <<>> /\ ev'[1].e = "msg") =>
        /\ _scheduled_tasks' = _scheduled_tasks
        /\ Len(ev') = 1

\* a delivery steps the next drained task and no entry of the time queue:
\* an entry leaves the queue only when its task is closed
DeliveryPopsNothing ==
    pc = "deliver" =>
        /\ {h \in 1..Len(ev') : ev'[h].e = "step"} = {1} /\ ev'[1].t = Head(msg_tasks)
        /\ \A j \in 1..Len(_scheduled_tasks) :
              \/ Count(_scheduled_tasks', _scheduled_tasks[j])
                    >= Count(_scheduled_tasks, _scheduled_tasks[j])
              \/ \E h \in 1..Len(ev') :
                    ev'[h].e = "close" /\ ev'[h].t = _scheduled_tasks[j].task

\* a timeout pops one entry, steps its task once and delivers no message
TimeoutPopsOne ==
    TimeoutStep =>
        /\ {h \in 1..Len(ev') : ev'[h].e = "step"} = {1}
        /\ \A h \in 1..Len(ev') : ev'[h].e # "msg"
        /\ pc' = "select" /\ msg_tasks' = msg_tasks
        /\ \A i \in Ifaces : IsSubSeq(PausedOn(_paused_tasks, i), PausedOn(_paused_tasks', i))
              \/ \E h \in 1..Len(ev') : ev'[h].e = "close"

\* C19: one iteration of run_forever either delivers a message to the tasks
\* paused on its interface or pops and steps one entry of the time queue,
\* never both; a message pops no entry even when one is due.
C19_MessageOrTimeout == [][MessagePopsNothing /\ DeliveryPopsNothing /\ TimeoutPopsOne]_vars

\* a message has arrived while the first entry of the time queue was due,
\* and it is being delivered
C19_Witness ==
    /\ pc = "deliver" /\ ev # <<>> /\ ev[1].e = "msg"
    /\ _scheduled_tasks # <<>> /\ ticks_diff(_scheduled_tasks[1].time, now) <= 0

-----------------------------------------------------------------------------
(* Signal.  Within one action the events come in the order of the calls:   *)
(* the step, the send() the task made, the handle() of what it yielded,    *)
(* each followed by the delivery it caused.                                *)

After(e) == {j \in 1..Len(ev') : ev'[j].e = e}

\* the slots as they were when event j was logged
TaskSlotAt(j) ==
    IF \E h \in After("await") : h < j
    THEN (IF \E h \in After("deliver") : h < j /\ \E a \in After("await") : a < h
          THEN 0 ELSE ev'[CHOOSE h \in After("await") : h < j].t)
    ELSE IF \E h \in After("deliver") : h < j THEN 0 ELSE signal.task

ValueSlotAt(j) ==
    IF \E h \in After("deliver") : h < j THEN <<>>
    ELSE IF \E h \in After("send") : h < j
    THEN Slot(ev'[CHOOSE h \in After("send") : h < j].x)
    ELSE signal.value

NeverBothOccupied == ~(signal'.task # 0 /\ signal'.value # <<>>)

\* a delivery takes the two slots, pushes the entry at now and empties both
DeliveryTakesBoth ==
    \A j \in After("deliver") :
        /\ j > 1 /\ ev'[j - 1].e \in {"send", "await"}
        /\ TaskSlotAt(j) = ev'[j].t
        /\ ValueSlotAt(j) = <<ev'[j].x>>
        /\ Pushed(Entry(now', ev'[j].t, ev'[j].x))
        /\ (\A h \in After("await") : h < j) => signal'.task = 0
        /\ (\A h \in After("send") : h < j) => signal'.value = <<>>
        /\ \A h \in After("step") : h < j

\* handle() and send() deliver as soon as the other slot is occupied
DeliversWhenBoth ==
    /\ \A j \in After("send") :
            (TaskSlotAt(j) # 0 /\ Slot(ev'[j].x) # <<>>)
                => (j < Len(ev') /\ ev'[j + 1].e = "deliver")
    /\ \A j \in After("await") :
            ValueSlotAt(j) # <<>> => (j < Len(ev') /\ ev'[j + 1].e = "deliver")

\* the entry popped by the loop is what the task is resumed with
ResumedWithEntry ==
    TimeoutStep => (ev'[1].t = Head(_scheduled_tasks).task
                        /\ ev'[1].x = Head(_scheduled_tasks).value)

C15_TwoSendsOneDelivery ==
    [][\A j \in After("await") :
          (Len(signal.sent) = 2 /\ signal.task = 0 /\ After("send") = {})
            => /\ After("deliver") = {j + 1}
               /\ ev'[j + 1].t = ev'[j].t
               /\ ev'[j + 1].x = signal.sent[2]
               /\ Pushed(Entry(now', ev'[j].t, signal.sent[2]))
               /\ signal'.task = 0 /\ signal'.value = <<>>]_vars

\* the same for second values other than the empty tuple
C15_UnlessEmptyTuple ==
    [][\A j \in After("await") :
          (/\ Len(signal.sent) = 2 /\ signal.task = 0 /\ After("send") = {}
           /\ signal.sent[2] # _NO_VALUE)
            => /\ After("deliver") = {j + 1}
               /\ ev'[j + 1].t = ev'[j].t
               /\ ev'[j + 1].x = signal.sent[2]
               /\ Pushed(Entry(now', ev'[j].t, signal.sent[2]))
               /\ signal'.task = 0 /\ signal'.value = <<>>]_vars

\* a task awaits after send(x) and send(()): nothing is delivered
C15_Lost ==
    /\ Events("await") # {} /\ Events("deliver") = {} /\ Events("send") = {}
    /\ Len(signal.sent) = 2 /\ signal.sent[2] = _NO_VALUE /\ signal.sent[1] # _NO_VALUE
    /\ signal.task # 0

-----------------------------------------------------------------------------
(* schedule_task; unschedule_task *)

IsRoundTrip(t) == ev' # <<>> /\ ev'[1].e = "roundtrip" /\ ev'[1].t = t

\* C16 as stated: schedule_task(t, v, d) followed at once by
\* unschedule_task(t) leaves the time queue with the same entries in the
\* same pop order, for every queue and every t, v and d.
C16_RoundTripAny ==
    [][\A t \in QueueTasks : IsRoundTrip(t) => _scheduled_tasks' = _scheduled_tasks]_vars

\* C16, for a task that has no entry in the queue: the two calls leave the
\* time queue with the same entries in the same pop order.
C16_RoundTrip ==
    [][\A t \in QueueTasks :
          (IsRoundTrip(t) /\ ~InQueue(_scheduled_tasks, t))
              => _scheduled_tasks' = _scheduled_tasks]_vars

\* what unschedule_task does in every case: the entries of the other tasks
\* stay, in their order, and none of the task stays
C16_RemovesEvery ==
    [][\A t \in QueueTasks :
          IsRoundTrip(t) =>
              _scheduled_tasks' = SelectSeq(_scheduled_tasks, LAMBDA e : e.task # t)]_vars

\* the two calls were made for a task without an entry, on a queue that
\* holds two entries of the deadline passed, and the queue is as before
C16_Witness ==
    /\ ev # <<>> /\ ev[1].e = "roundtrip"
    /\ ~InQueue(_scheduled_tasks, ev[1].t)
    /\ Cardinality({j \in 1..Len(_scheduled_tasks) : _scheduled_tasks[j].time = ev[1].n}) = 2
    /\ Len(_scheduled_tasks) = 3

-----------------------------------------------------------------------------
(* The capacity of the time queue.  An "overflow" event is a push that     *)
(* found _MAX_QUEUE_SIZE entries; its n is 1 when a handler made it, in    *)
(* the else branch of _step_task, and 0 when the code of a task made it.   *)

Overflows(n) == {j \in 1..Len(ev') : ev'[j].e = "overflow" /\ ev'[j].n = n}

\* the failed push added nothing and took nothing out
QueueKept ==
    /\ Len(_scheduled_tasks') <= _MAX_QUEUE_SIZE
    /\ \A j \in 1..Len(Remaining) :
          Count(_scheduled_tasks', Remaining[j]) >= Count(Remaining, Remaining[j])

\* the loop is left, and nothing runs after
Fatal == pc' = "crashed"
NoStepAfterCrash == pc # "crashed"

\* C20: the time queue never holds more than _MAX_QUEUE_SIZE entries, and
\* a push that finds it full is fatal whoever makes it, a handler of the
\* step engine or a call inside the step of a task: the queue is not
\* enlarged, no entry is evicted, and the loop does not run on.
C20_OverflowIsFatal ==
    [][/\ Len(_scheduled_tasks') <= _MAX_QUEUE_SIZE
       /\ NoStepAfterCrash
       /\ (Overflows(0) \cup Overflows(1)) # {} => (QueueKept /\ Fatal)]_vars

\* what holds: the bound, and the pushes of the handlers
C20_Bounded == Len(_scheduled_tasks) <= _MAX_QUEUE_SIZE

C20_HandlerOverflowIsFatal ==
    [][/\ NoStepAfterCrash
       /\ (Overflows(0) \cup Overflows(1)) # {} => QueueKept
       /\ Overflows(1) # {} => Fatal]_vars

\* a task called workflow.start() or signal.send() while the queue was
\* full: the exception was logged as the failure of the task and the loop
\* runs on
C20_Absorbed ==
    /\ \E j \in Events("overflow") : ev[j].n = 0
    /\ Events("raised") # {}
    /\ pc \in {"select", "deliver"}
    /\ Len(_scheduled_tasks) = _MAX_QUEUE_SIZE

\* a handler pushed while the queue was full: the loop is left
C20_Crashed == pc = "crashed" /\ \E j \in Events("overflow") : ev[j].n = 1

-----------------------------------------------------------------------------
(* Wait.exit() and the children that have finished.  Only Wait.exit()      *)
(* closes a _wait wrapper, so a "close" event of a wrapper is a close()    *)
(* called by the exit() of its Wait.                                       *)

IsFinished(t) ==
    /\ tasks[t].kind = "wait"
    /\ ChildObj(tasks[t].w, tasks[t].k) \in Range(waits[tasks[t].w].finished)

\* C21: Wait.exit() closes only children that have not finished: a child
\* recorded in the finished list of the Wait, the one whose end made the
\* Wait exit included, is not closed by exit().
C21_FinishedNotClosed ==
    \A j \in Events("close") : ~IsFinished(ev[j].t)

\* the same in the states where no Wait has resumed its parent twice
C21_WithoutC6 ==
    (\A w \in 1..Len(waits) : waits[w].resumed <= 1) => C21_FinishedNotClosed

\* exit() called close() on the wrapper that was running _finish
C21_ClosedItself ==
    \E j \in Events("close"), h \in Events("step") :
        ev[j].t = ev[h].t /\ IsFinished(ev[j].t)

-----------------------------------------------------------------------------
(* after_step_hook *)

Hooks == {j \in 1..Len(ev') : ev'[j].e = "hook"}
StepsOf == {j \in 1..Len(ev') : ev'[j].e = "step"}

\* C22: when after_step_hook is set it is called exactly once after every
\* call of _step_task, however the step ended: a syscall, a bare yield, an
\* unknown value, a return or a raise.
C22_HookAfterEveryStep ==
    [][after_step_hook => Cardinality(Hooks) = Cardinality(StepsOf)]_vars

\* what holds: once after a step in which the task yielded, and last
C22_HookAfterYield ==
    [][(after_step_hook /\ StepsOf # {})
          => IF tasks'[ev'[1].t].st = "susp" /\ ev'[1].n = 0
             THEN Hooks = {Len(ev')}
             ELSE Hooks = {}]_vars

\* a task returned or raised, and the hook, which is set, was not called
C22_NoHook ==
    /\ after_step_hook
    /\ Events("step") # {} /\ Events("hook") = {}
    /\ tasks[ev[1].t].st = "done"

-----------------------------------------------------------------------------
(* unschedule_task *)

IsUnschedule(t) == ev' # <<>> /\ ev'[1].e = "unschedule" /\ ev'[1].t = t

\* C23: unschedule_task(t) removes every entry of the time queue whose task
\* is t and keeps every other entry, with its deadline, task and value, in
\* the same relative pop order; the queue is shorter by the number of
\* entries t had.
C23_UnscheduleFrame ==
    [][\A t \in QueueTasks :
          IsUnschedule(t) =>
              /\ _scheduled_tasks' = SelectSeq(_scheduled_tasks, LAMBDA e : e.task # t)
              /\ ~InQueue(_scheduled_tasks', t)
              /\ Len(_scheduled_tasks') =
                    Len(_scheduled_tasks) - Cardinality(EntriesOfTask(_scheduled_tasks, t))]_vars

\* a task with two entries was unscheduled and the entry of another task
\* is what is left
C23_Witness ==
    /\ ev # <<>> /\ ev[1].e = "unschedule" /\ ev[1].n = 2
    /\ Len(_scheduled_tasks) = MaxQueue - 2
    /\ ~InQueue(_scheduled_tasks, ev[1].t)

-----------------------------------------------------------------------------
(* Unknown values and bare yields *)

NoWaitResumedTwice == \A w \in 1..Len(waits) : waits[w].resumed <= 1

Dropped(t) ==
    /\ ~InQueue(_scheduled_tasks, t)
    /\ ~InPaused(_paused_tasks, t)
    /\ t \notin Range(msg_tasks)
    /\ signal.task # t

\* C24: a task that yields a value that is neither a Syscall nor None is
\* dropped: after the step it is in neither the time queue nor the paused
\* table, nothing is left that would step it again, and the loop goes on.
C24_UnknownIsDropped ==
    \A j \in Events("unknown") : Dropped(ev[j].t) /\ pc \in {"select", "deliver"}

\* the same in the states where no Wait has resumed its parent twice
C24_WithoutC6 == NoWaitResumedTwice => C24_UnknownIsDropped

\* a task yielded an unknown value, was dropped, and the loop goes on
C24_Reached ==
    \E j \in Events("unknown") : Dropped(ev[j].t) /\ pc = "select" /\ _scheduled_tasks # <<>>

\* the position of the entry a bare yield pushed: the last entry [now, t, None]
BarePos(t) ==
    CHOOSE p \in 1..Len(_scheduled_tasks') :
        /\ _scheduled_tasks'[p] = Entry(now', t, None)
        /\ \A h \in (p + 1)..Len(_scheduled_tasks') :
              _scheduled_tasks'[h] # Entry(now', t, None)

DueAfter(h) == ticks_diff(_scheduled_tasks'[h].time, now') <= 0

\* one entry more for the task, keyed at now with value None, behind every
\* entry that was in the queue and is due
BarePushedOnce(t) ==
    /\ Count(_scheduled_tasks', Entry(now', t, None))
          = Count(Remaining, Entry(now', t, None)) + 1
    /\ Cardinality(EntriesOfTask(_scheduled_tasks', t))
          = Cardinality(EntriesOfTask(Remaining, t)) + 1
    /\ \A h \in 1..Len(_scheduled_tasks') :
          (h # BarePos(t) /\ DueAfter(h)) => h < BarePos(t)

\* every due entry of another task is popped before any entry of the task
OthersFirst(t) ==
    \A h, p \in 1..Len(_scheduled_tasks') :
        (/\ _scheduled_tasks'[h].task # t /\ DueAfter(h)
         /\ _scheduled_tasks'[p].task = t) => h < p

\* C25: a task that yields None is pushed on the time queue exactly once,
\* at deadline now with value None, behind the entries already due, so
\* that the other due tasks are stepped before it runs again.
C25_BareYield ==
    [][\A j \in 1..Len(ev') :
          ev'[j].e = "bare" => (BarePushedOnce(ev'[j].t) /\ OthersFirst(ev'[j].t))]_vars

\* the push by itself
C25_PushedBehind ==
    [][\A j \in 1..Len(ev') : ev'[j].e = "bare" => BarePushedOnce(ev'[j].t)]_vars

\* the same where no Wait has resumed its parent twice
C25_WithoutC6 ==
    [][\A j \in 1..Len(ev') :
          (ev'[j].e = "bare" /\ \A w \in 1..Len(waits') : waits'[w].resumed <= 1)
              => (BarePushedOnce(ev'[j].t) /\ OthersFirst(ev'[j].t))]_vars

-----------------------------------------------------------------------------
(* Deadlines that wrap.  A step takes no time and the clock stops at the   *)
(* first deadline, so no entry of the queue is overdue: an entry whose     *)
(* deadline reads less than the clock is one whose deadline has wrapped,   *)
(* and every entry whose deadline reads at least the clock precedes it in  *)
(* real time.  Delays are below half the period of the counter.            *)

Wrapped(e) == e.time < now
NoneOverdue == \A j \in 1..Len(_scheduled_tasks) : ticks_diff(_scheduled_tasks[j].time, now) >= 0

\* the entries that have not wrapped are popped first
WrappedLast ==
    \A j, h \in 1..Len(_scheduled_tasks) :
        (~Wrapped(_scheduled_tasks[j]) /\ Wrapped(_scheduled_tasks[h])) => j < h

\* run_forever waits for a wrapped deadline: the time left is what the
\* clock has to run to the end of the period and on to the deadline
WrappedNotDue ==
    (_scheduled_tasks # <<>> /\ Wrapped(_scheduled_tasks[1]))
        => (Delay > 0 /\ Delay = TicksPeriod - now + _scheduled_tasks[1].time)

\* and the entry is popped when the clock, wrapped too, reads its deadline
PoppedOnTime == TimeoutStep => now' = Head(_scheduled_tasks).time

\* C26: a Sleep whose deadline now + delay_us wraps past 0 is ordered after
\* every deadline that has not wrapped and precedes it in real time: it is
\* not popped before those entries, and the delay computed by run_forever
\* does not take it for due.
C26_WrapOrder ==
    [][/\ NoneOverdue /\ WrappedLast /\ WrappedNotDue
       /\ PoppedOnTime]_vars

\* a Sleep pushed a wrapped deadline behind one that has not wrapped
C26_Witness ==
    /\ \E j \in Events("sleep") : ev[j].x.v[1] < now /\ ev[j].n > 0
    /\ \E j, h \in 1..Len(_scheduled_tasks) :
          j < h /\ ~Wrapped(_scheduled_tasks[j]) /\ Wrapped(_scheduled_tasks[h])

\* the loop has waited for a wrapped deadline and stepped its task
C26_PoppedAfterWrap ==
    /\ ev # <<>> /\ ev[1].e = "step" /\ ev[1].x = IntV(0) /\ now = 0 /\ pc = "select"

-----------------------------------------------------------------------------
(* close_default.  Only close_default() closes a generator made by the     *)
(* default factory.                                                        *)

ClosedDefaults == {j \in Events("close") : tasks[ev[j].t].kind = "default"}

\* C27: after close_default() the task that was the default has left the
\* scheduler: it is in neither the time queue nor a list of the paused
\* table, so that the loop does not step it again.
C27_ClosedDefaultLeaves ==
    \A j \in ClosedDefaults :
        /\ ~InQueue(_scheduled_tasks, ev[j].t)
        /\ ~InPaused(_paused_tasks, ev[j].t)
        /\ ev[j].t \notin Range(msg_tasks)

\* the loop steps the closed default while a workflow runs
C27_SteppedAfterClose ==
    /\ ev # <<>> /\ ev[1].e = "step" /\ ev[1].n = 1
    /\ tasks[ev[1].t].kind = "default"
    /\ _started # <<>>

-----------------------------------------------------------------------------
(* Tasks closed by Wait.exit() *)

ClosedWrappers == {j \in Events("close") : tasks[ev[j].t].kind = "wait"}

\* C28: a task closed by Wait.exit() is not stepped by the loop afterwards:
\* nothing that the loop steps holds it, neither the time queue, nor the
\* paused table, nor the list drained for the message being delivered.
C28_ClosedNeverStepped ==
    \A j \in ClosedWrappers :
        /\ ~InQueue(_scheduled_tasks, ev[j].t)
        /\ ~InPaused(_paused_tasks, ev[j].t)
        /\ ev[j].t \notin Range(msg_tasks)

\* the same in the states where no Wait has resumed its parent twice
C28_WithoutC6 == NoWaitResumedTwice => C28_ClosedNeverStepped

\* what exit() does achieve: the closed task is in no structure of the loop
C28_OutOfQueueAndTable ==
    NoWaitResumedTwice =>
        \A j \in ClosedWrappers :
            ~InQueue(_scheduled_tasks, ev[j].t) /\ ~InPaused(_paused_tasks, ev[j].t)

\* the delivery of a message steps a child that exit() has closed
C28_SteppedClosed ==
    /\ ev # <<>> /\ ev[1].e = "step" /\ ev[1].n = 1 /\ ev[1].x.k = "tuple"
    /\ tasks[ev[1].t].kind = "wait"
    /\ NoWaitResumedTwice

-----------------------------------------------------------------------------
(* Two tasks awaiting one Signal *)

\* C29: Signal.handle never discards a task that the task slot holds: a
\* task that awaited the Signal stays in the slot, or is scheduled, when
\* another task awaits the same Signal, so that two sends resume both.
C29_NoAwaiterLost ==
    [][\A j \in After("await") :
          (TaskSlotAt(j) # 0 /\ TaskSlotAt(j) # ev'[j].t)
              => \/ signal'.task = TaskSlotAt(j)
                 \/ InQueue(_scheduled_tasks', TaskSlotAt(j))]_vars

\* a task that awaited the Signal is suspended and nothing holds it: not
\* the Signal, which another task awaits, nor the queue, nor the table
C29_Lost ==
    /\ signal.task # 0
    /\ \E a \in Handles :
          /\ a # signal.task /\ tasks[a].st = "susp"
          /\ ~InQueue(_scheduled_tasks, a) /\ ~InPaused(_paused_tasks, a)
          /\ a \notin Range(msg_tasks)

-----------------------------------------------------------------------------
(* Liveness of timed tasks *)

\* the clock advances again and again
ClockAdvances == []<><<now' # now>>_now

\* the last step of the loop popped an entry of t and stepped t with its value
PoppedAndStepped(t) ==
    /\ ev # <<>> /\ ev[1].e = "step" /\ ev[1].t = t
    /\ ev[1].x # TupleV(Payload)

\* C30: while the clock advances, every entry of the time queue is popped
\* at last and its task stepped, whatever the message source does.
C30_TimedTasksLive ==
    ClockAdvances =>
        \A t \in TaskIds : InQueue(_scheduled_tasks, t) ~> PoppedAndStepped(t)

\* an entry is overdue and the loop has just taken a message with no task
\* to deliver it to
C30_Starved ==
    /\ \E j \in 1..Len(_scheduled_tasks) : ticks_diff(_scheduled_tasks[j].time, now) < 0
    /\ pc = "select" /\ ev # <<>> /\ ev[1].e = "msg"

-----------------------------------------------------------------------------
(* Liveness of Wait *)

\* a task awaits Wait w and every child of w has terminated
AllTerminated(w) ==
    /\ w <= Len(waits) /\ waits[w].task # 0
    /\ Len(waits[w].scheduled) = Len(waits[w].children)
    /\ \A j \in 1..Len(waits[w].scheduled) : tasks[waits[w].scheduled[j]].st = "done"

\* _finish has scheduled the parent of Wait w
ParentScheduled(w) == w <= Len(waits) /\ waits[w].resumed >= 1

\* C31: once every child of a Wait has terminated, the parent is scheduled
\* for resumption at last, whatever wait_for and exit_others the Wait was
\* built with.
C31_WaitLive == \A w \in WaitIds : AllTerminated(w) ~> ParentScheduled(w)

\* C31 for the Waits that wait for at least one and at most all of their
\* children
C31_WaitForInRange ==
    \A w \in WaitIds :
        (AllTerminated(w) /\ waits[w].wait_for \in 1..Len(waits[w].children))
            ~> ParentScheduled(w)

\* the same as a property of every state: where wait_for is in range, the
\* parent was scheduled by the time the last child terminated
C31_ScheduledByTheLast ==
    \A w \in WaitIds :
        (AllTerminated(w) /\ waits[w].wait_for \in 1..Len(waits[w].children))
            => ParentScheduled(w)

\* every child has terminated, none with an exception, and the parent was
\* not scheduled
C31_ParentLeftWaiting ==
    \E w \in WaitIds :
        /\ AllTerminated(w) /\ ~ParentScheduled(w)
        /\ Len(waits[w].finished) = Len(waits[w].children)

====
